---------------------------- MODULE Spec2Model ----------------------------
(***************************************************************************)
(* Model of scripts/generate_testrail_cases.py: the response extractor     *)
(* parse_test_cases (with fix_json_string) and the TestRail client         *)
(* create_testrail_cases.                                                  *)
(*                                                                         *)
(* Text is a sequence of one-character strings, so that the regular        *)
(* expressions and json.loads of the script are modelled by what they do   *)
(* on characters.  A JSON value is a record of one fixed shape             *)
(*    [t, s, n, a, o]                                                      *)
(* t the type tag, s the characters of a string, n the number, a the       *)
(* elements of an array, o the members <<[k, v], ...>> of an object, in    *)
(* insertion order as in a Python dict.                                    *)
(***************************************************************************)
EXTENDS Integers, Sequences, FiniteSets, TLC

(***************************************************************************)
(* Bounds of the model.                                                    *)
(***************************************************************************)
MaxRecords == 2
MaxCases == 2

\* the largest max_retries a run is given
MaxRetries == 3

\* the longest API key
MaxKeyLen == 9

(***************************************************************************)
(* Characters.                                                             *)
(***************************************************************************)
QUOTE == "\""
BSLASH == "\\"
\* the backtick, which a TLA+ string literal cannot hold
TICK == "BACKTICK"

\* Python's whitespace class on the characters of the model
IsSpace(c) == c \in {" ", "\n", "\t", "\r", "\f"}

\* the whitespace json.loads skips
IsJsonWs(c) == c \in {" ", "\n", "\t", "\r"}

Digits == <<"0", "1", "2", "3", "4", "5", "6", "7", "8", "9">>

IsDigit(c) == \E d \in 1..10 : Digits[d] = c

DigitVal(c) == (CHOOSE d \in 1..10 : Digits[d] = c) - 1

Letters ==
    {"a", "b", "c", "d", "e", "f", "g", "h", "i", "j", "k", "l", "m", "n",
     "o", "p", "q", "r", "s", "t", "u", "v", "w", "x", "y", "z",
     "A", "B", "C", "D", "E", "F", "G", "H", "I", "J", "K", "L", "M", "N",
     "O", "P", "Q", "R", "S", "T", "U", "V", "W", "X", "Y", "Z"}

\* Python's word class on the characters of the model
IsWord(c) == c \in Letters \/ IsDigit(c) \/ c = "_"

\* s[i..] starts with the characters of w
StartsAt(s, i, w) ==
    /\ i >= 1
    /\ i + Len(w) - 1 <= Len(s)
    /\ \A k \in 1..Len(w) : s[i + k - 1] = w[k]

\* str.count of a single character
Count(s, c) == Cardinality({i \in 1..Len(s) : s[i] = c})

Repeat(c, n) == [i \in 1..n |-> c]

\* the first index >= i of s that holds no whitespace character (Len(s)+1 if none)
RECURSIVE SkipSpace(_, _)
SkipSpace(s, i) ==
    IF i <= Len(s) /\ IsSpace(s[i]) THEN SkipSpace(s, i + 1) ELSE i

\* the first index >= i of s that holds no word character
RECURSIVE SkipWord(_, _)
SkipWord(s, i) ==
    IF i <= Len(s) /\ IsWord(s[i]) THEN SkipWord(s, i + 1) ELSE i

(***************************************************************************)
(* Words of the script.                                                    *)
(***************************************************************************)
w_json == <<"j", "s", "o", "n">>
w_fence == <<TICK, TICK, TICK>>
w_true == <<"t", "r", "u", "e">>
w_false == <<"f", "a", "l", "s", "e">>
w_null == <<"n", "u", "l", "l">>
k_test_cases == <<"t", "e", "s", "t", "_", "c", "a", "s", "e", "s">>
k_title == <<"t", "i", "t", "l", "e">>
k_preconditions ==
    <<"p", "r", "e", "c", "o", "n", "d", "i", "t", "i", "o", "n", "s">>
k_steps == <<"s", "t", "e", "p", "s">>
k_expected_results ==
    <<"e", "x", "p", "e", "c", "t", "e", "d", "_",
      "r", "e", "s", "u", "l", "t", "s">>
k_priority == <<"p", "r", "i", "o", "r", "i", "t", "y">>
k_refs == <<"r", "e", "f", "s">>
k_estimate == <<"e", "s", "t", "i", "m", "a", "t", "e">>
p_Critical == <<"C", "r", "i", "t", "i", "c", "a", "l">>
p_High == <<"H", "i", "g", "h">>
p_Medium == <<"M", "e", "d", "i", "u", "m">>
p_Low == <<"L", "o", "w">>

(***************************************************************************)
(* JSON values.                                                            *)
(***************************************************************************)
JNull == [t |-> "null", s |-> <<>>, n |-> 0, a |-> <<>>, o |-> <<>>]
JBool(b) == [t |-> "bool", s |-> <<>>, n |-> IF b THEN 1 ELSE 0,
             a |-> <<>>, o |-> <<>>]
JNum(x) == [t |-> "num", s |-> <<>>, n |-> x, a |-> <<>>, o |-> <<>>]
JStr(x) == [t |-> "str", s |-> x, n |-> 0, a |-> <<>>, o |-> <<>>]
JArr(x) == [t |-> "arr", s |-> <<>>, n |-> 0, a |-> x, o |-> <<>>]
JObj(x) == [t |-> "obj", s |-> <<>>, n |-> 0, a |-> <<>>, o |-> x]

HasKey(members, k) == \E i \in 1..Len(members) : members[i].k = k

\* d[k] of a dict that holds k
Lookup(members, k) ==
    members[CHOOSE i \in 1..Len(members) : members[i].k = k].v

\* d[k] = v: a key already present keeps its place and takes the new value
DictSet(members, k, v) ==
    IF HasKey(members, k)
    THEN [i \in 1..Len(members) |->
            IF members[i].k = k THEN [k |-> k, v |-> v] ELSE members[i]]
    ELSE Append(members, [k |-> k, v |-> v])

(***************************************************************************)
(* json.loads on the characters of the model.  A result is                 *)
(* [ok, v, next]: whether a value was decoded, the value, and the index    *)
(* after it.  Numbers are integers; NaN, Infinity, fractions, exponents    *)
(* and the escapes \b and \uXXXX lie outside the characters of the model.  *)
(***************************************************************************)
JsonFail == [ok |-> FALSE, v |-> JNull, next |-> 0]

JsonOk(v, next) == [ok |-> TRUE, v |-> v, next |-> next]

RECURSIVE SkipJsonWs(_, _)
SkipJsonWs(s, i) ==
    IF i <= Len(s) /\ IsJsonWs(s[i]) THEN SkipJsonWs(s, i + 1) ELSE i

\* the character an escape \c stands for (<<>> if it is no escape)
Unescape(c) ==
    CASE c = QUOTE -> <<QUOTE>>
      [] c = BSLASH -> <<BSLASH>>
      [] c = "/" -> <<"/">>
      [] c = "n" -> <<"\n">>
      [] c = "t" -> <<"\t">>
      [] c = "r" -> <<"\r">>
      [] c = "f" -> <<"\f">>
      [] OTHER -> <<>>

\* the string whose opening quote is at i - 1: scan from i
RECURSIVE ScanString(_, _, _)
ScanString(s, i, acc) ==
    IF i > Len(s) THEN JsonFail
    ELSE IF s[i] = QUOTE THEN JsonOk(JStr(acc), i + 1)
    ELSE IF s[i] = BSLASH
         THEN IF i + 1 > Len(s) \/ Unescape(s[i + 1]) = <<>>
              THEN JsonFail
              ELSE ScanString(s, i + 2, acc \o Unescape(s[i + 1]))
    ELSE IF s[i] \in {"\n", "\t", "\r", "\f"} THEN JsonFail
    ELSE ScanString(s, i + 1, Append(acc, s[i]))

RECURSIVE ScanDigits(_, _, _)
ScanDigits(s, i, acc) ==
    IF i <= Len(s) /\ IsDigit(s[i])
    THEN ScanDigits(s, i + 1, 10 * acc + DigitVal(s[i]))
    ELSE JsonOk(JNum(acc), i)

\* -?(0|[1-9][0-9]*) at i
ScanNumber(s, i) ==
    LET neg == s[i] = "-"
        j == IF neg THEN i + 1 ELSE i
    IN  IF j > Len(s) \/ ~IsDigit(s[j]) THEN JsonFail
        ELSE LET r == IF s[j] = "0" THEN JsonOk(JNum(0), j + 1)
                      ELSE ScanDigits(s, j, 0)
             IN  IF neg THEN JsonOk(JNum(0 - r.v.n), r.next) ELSE r

RECURSIVE ScanValue(_, _)
RECURSIVE ScanMembers(_, _, _)
RECURSIVE ScanElements(_, _, _)

\* one value starting at i (no leading whitespace)
ScanValue(s, i) ==
    IF i > Len(s) THEN JsonFail
    ELSE IF s[i] = QUOTE THEN ScanString(s, i + 1, <<>>)
    ELSE IF s[i] = "{"
         THEN LET j == SkipJsonWs(s, i + 1)
              IN  IF j > Len(s) THEN JsonFail
                  ELSE IF s[j] = "}" THEN JsonOk(JObj(<<>>), j + 1)
                  ELSE ScanMembers(s, j, <<>>)
    ELSE IF s[i] = "["
         THEN LET j == SkipJsonWs(s, i + 1)
              IN  IF j > Len(s) THEN JsonFail
                  ELSE IF s[j] = "]" THEN JsonOk(JArr(<<>>), j + 1)
                  ELSE ScanElements(s, j, <<>>)
    ELSE IF StartsAt(s, i, w_true) THEN JsonOk(JBool(TRUE), i + 4)
    ELSE IF StartsAt(s, i, w_false) THEN JsonOk(JBool(FALSE), i + 5)
    ELSE IF StartsAt(s, i, w_null) THEN JsonOk(JNull, i + 4)
    ELSE IF s[i] = "-" \/ IsDigit(s[i]) THEN ScanNumber(s, i)
    ELSE JsonFail

\* the members of an object from the key at i on: "key" : value , ... }
ScanMembers(s, i, acc) ==
    IF i > Len(s) \/ s[i] # QUOTE THEN JsonFail
    ELSE LET key == ScanString(s, i + 1, <<>>)
         IN  IF ~key.ok THEN JsonFail
             ELSE LET c == SkipJsonWs(s, key.next)
                  IN  IF c > Len(s) \/ s[c] # ":" THEN JsonFail
                      ELSE LET val == ScanValue(s, SkipJsonWs(s, c + 1))
                           IN  IF ~val.ok THEN JsonFail
                               ELSE LET e == SkipJsonWs(s, val.next)
                                        d == DictSet(acc, key.v.s, val.v)
                                    IN  IF e > Len(s) THEN JsonFail
                                        ELSE IF s[e] = "}"
                                             THEN JsonOk(JObj(d), e + 1)
                                        ELSE IF s[e] # "," THEN JsonFail
                                        ELSE ScanMembers(
                                               s, SkipJsonWs(s, e + 1), d)

\* the elements of an array from the value at i on: value , ... ]
ScanElements(s, i, acc) ==
    LET val == ScanValue(s, i)
    IN  IF ~val.ok THEN JsonFail
        ELSE LET e == SkipJsonWs(s, val.next)
             IN  IF e > Len(s) THEN JsonFail
                 ELSE IF s[e] = "]"
                      THEN JsonOk(JArr(Append(acc, val.v)), e + 1)
                 ELSE IF s[e] # "," THEN JsonFail
                 ELSE ScanElements(s, SkipJsonWs(s, e + 1),
                                   Append(acc, val.v))

\* json.loads(s): [ok, v]; ok is FALSE where json.JSONDecodeError is raised
json_loads(s) ==
    LET r == ScanValue(s, SkipJsonWs(s, 1))
    IN  IF r.ok /\ SkipJsonWs(s, r.next) = Len(s) + 1
        THEN [ok |-> TRUE, v |-> r.v]
        ELSE [ok |-> FALSE, v |-> JNull]

(***************************************************************************)
(* The text a model may answer with: a JSON value written out in a style.  *)
(* A style is [q, kq, tc, sep, nl]: the quote character of strings,        *)
(* whether keys are quoted, whether a comma follows the last member or     *)
(* element, the separator between members and elements, and the text put   *)
(* after every opening bracket and separator.                              *)
(***************************************************************************)
Strict == [q |-> QUOTE, kq |-> TRUE, tc |-> FALSE, sep |-> <<",">>,
           nl |-> <<>>]

RECURSIVE Escape(_)
Escape(x) ==
    IF x = <<>> THEN <<>>
    ELSE LET c == Head(x)
             e == CASE c = QUOTE -> <<BSLASH, QUOTE>>
                    [] c = BSLASH -> <<BSLASH, BSLASH>>
                    [] c = "\n" -> <<BSLASH, "n">>
                    [] c = "\t" -> <<BSLASH, "t">>
                    [] OTHER -> <<c>>
         IN  e \o Escape(Tail(x))

RECURSIVE NumText(_)
NumText(n) ==
    IF n < 10 THEN <<Digits[n + 1]>>
    ELSE NumText(n \div 10) \o <<Digits[(n % 10) + 1]>>

RECURSIVE Dumps(_, _)
RECURSIVE DumpSeq(_, _, _, _)

\* the items of an array (obj = FALSE) or the members of an object, from i on
DumpSeq(items, i, obj, st) ==
    IF i > Len(items) THEN <<>>
    ELSE LET one == IF obj
                    THEN (IF st.kq
                          THEN <<st.q>> \o Escape(items[i].k) \o <<st.q>>
                          ELSE items[i].k)
                         \o <<":">> \o Dumps(items[i].v, st)
                    ELSE Dumps(items[i], st)
             last == i = Len(items)
         IN  one
             \o (IF last THEN (IF st.tc THEN <<",">> ELSE <<>>)
                 ELSE st.sep \o st.nl)
             \o DumpSeq(items, i + 1, obj, st)

Dumps(v, st) ==
    CASE v.t = "null" -> w_null
      [] v.t = "bool" -> IF v.n = 1 THEN w_true ELSE w_false
      [] v.t = "num" ->
            IF v.n < 0 THEN <<"-">> \o NumText(0 - v.n) ELSE NumText(v.n)
      [] v.t = "str" -> <<st.q>> \o Escape(v.s) \o <<st.q>>
      [] v.t = "arr" ->
            <<"[">> \o (IF v.a = <<>> THEN <<>> ELSE st.nl)
            \o DumpSeq(v.a, 1, FALSE, st) \o <<"]">>
      [] v.t = "obj" ->
            <<"{">> \o (IF v.o = <<>> THEN <<>> ELSE st.nl)
            \o DumpSeq(v.o, 1, TRUE, st) \o <<"}">>

(***************************************************************************)
(* The regular expressions of parse_test_cases.  A match is [ok, str]:     *)
(* whether re.search found a match, and the text of group(1).              *)
(***************************************************************************)
NoMatch == [ok |-> FALSE, str |-> <<>>]

Match(s, b, e) == [ok |-> TRUE, str |-> SubSeq(s, b, e)]

\* the least member of a non-empty set of indices
MinOf(S) == CHOOSE i \in S : \A j \in S : i <= j

MaxOf(S) == CHOOSE i \in S : \A j \in S : j <= i

\* the fenced pattern with a greedy .* : the last } that a fence follows
FirstClose_Greedy(s, e) ==
    LET ends == {i \in e..Len(s) :
                    s[i] = "}" /\ StartsAt(s, SkipSpace(s, i + 1), w_fence)}
    IN  IF ends = {} THEN 0 ELSE MaxOf(ends)

\* the lazy .*? of the fenced pattern: the first } from e on that \s* and a
\* fence follow (0 if there is none)
FirstClose(s, e) ==
    LET ends == {i \in e..Len(s) :
                    s[i] = "}" /\ StartsAt(s, SkipSpace(s, i + 1), w_fence)}
    IN  IF ends = {} THEN 0 ELSE MinOf(ends)

\* \s*(\{.*?\})\s*``` at j: the bounds of group(1), <<0, 0>> if no match
AfterFence(s, j) ==
    LET k == SkipSpace(s, j)
    IN  IF k <= Len(s) /\ s[k] = "{" /\ FirstClose(s, k + 1) # 0
        THEN <<k, FirstClose(s, k + 1)>>
        ELSE <<0, 0>>

\* ```(?:json)?\s*(\{.*?\})\s*``` matched at i exactly
FencedAt(s, i) ==
    IF ~StartsAt(s, i, w_fence) THEN <<0, 0>>
    ELSE IF StartsAt(s, i + 3, w_json) /\ AfterFence(s, i + 7) # <<0, 0>>
         THEN AfterFence(s, i + 7)
    ELSE AfterFence(s, i + 3)

\* re.search(r'```(?:json)?\s*(\{.*?\})\s*```', s, re.DOTALL): leftmost match
FencedSearch(s) ==
    LET starts == {i \in 1..Len(s) : FencedAt(s, i) # <<0, 0>>}
    IN  IF starts = {} THEN NoMatch
        ELSE LET m == FencedAt(s, MinOf(starts)) IN Match(s, m[1], m[2])

\* re.search(r'(\{.*\})', s, re.DOTALL): the first { to the last } after it
BraceSearch(s) ==
    LET opens == {i \in 1..Len(s) : s[i] = "{"}
        closes == {i \in 1..Len(s) : s[i] = "}"}
    IN  IF opens = {} THEN NoMatch
        ELSE LET after == {i \in closes : i > MinOf(opens)}
             IN  IF after = {} THEN NoMatch
                 ELSE Match(s, MinOf(opens), MaxOf(after))

\* the index of the first quote character from i on (0 if none)
NextQuote(s, i) ==
    LET qs == {j \in i..Len(s) : s[j] = QUOTE}
    IN  IF qs = {} THEN 0 ELSE MinOf(qs)

\* "key"\s*:\s*"([^"]+)" matched at i exactly: the bounds of group(1)
FieldAt(s, i, key) ==
    IF ~StartsAt(s, i, <<QUOTE>> \o key \o <<QUOTE>>) THEN <<0, 0>>
    ELSE LET c == SkipSpace(s, i + Len(key) + 2)
         IN  IF c > Len(s) \/ s[c] # ":" THEN <<0, 0>>
             ELSE LET q == SkipSpace(s, c + 1)
                  IN  IF q > Len(s) \/ s[q] # QUOTE THEN <<0, 0>>
                      ELSE LET e == NextQuote(s, q + 1)
                           IN  IF e > q + 1 THEN <<q + 1, e - 1>>
                               ELSE <<0, 0>>

\* re.search(r'"key"\s*:\s*"([^"]+)"', s): leftmost match
FieldSearch(s, key) ==
    LET starts == {i \in 1..Len(s) : FieldAt(s, i, key) # <<0, 0>>}
    IN  IF starts = {} THEN NoMatch
        ELSE LET m == FieldAt(s, MinOf(starts), key) IN Match(s, m[1], m[2])

(***************************************************************************)
(* fix_json_string: the four substitutions and the two bracket counts.     *)
(***************************************************************************)
\* re.sub(r"(?<![\\])\'", "\"", s)
FixQuotes(s) ==
    [i \in 1..Len(s) |->
        IF s[i] = "'" /\ ~(i > 1 /\ s[i - 1] = BSLASH) THEN QUOTE ELSE s[i]]

\* the concatenation of the pieces f[lo], ..., f[hi]
RECURSIVE Flatten(_, _, _)
Flatten(f, lo, hi) ==
    IF lo > hi THEN <<>>
    ELSE IF lo = hi THEN f[lo]
    ELSE LET mid == (lo + hi) \div 2
         IN  Flatten(f, lo, mid) \o Flatten(f, mid + 1, hi)

\* re.sub(r",\s*X", "X", s) for the closing bracket X: every comma that
\* only whitespace separates from an X goes, with that whitespace
FixTrailing(s, close) ==
    LET hit(i) == /\ s[i] = ","
                  /\ SkipSpace(s, i + 1) <= Len(s)
                  /\ s[SkipSpace(s, i + 1)] = close
        gone == UNION {i..(SkipSpace(s, i + 1) - 1) :
                          i \in {j \in 1..Len(s) : hit(j)}}
    IN  Flatten([i \in 1..Len(s) |-> IF i \in gone THEN <<>> ELSE <<s[i]>>],
                1, Len(s))

\* re.sub(r"([{,]\s*)(\w+)(\s*:)", r'\1"\2"\3', s): a word that follows
\* { or , and that a colon follows is put in double quotes
FixKeys(s) ==
    LET first(i) == SkipSpace(s, i + 1)
        hit(i) == /\ s[i] \in {"{", ","}
                  /\ SkipWord(s, first(i)) > first(i)
                  /\ SkipSpace(s, SkipWord(s, first(i))) <= Len(s)
                  /\ s[SkipSpace(s, SkipWord(s, first(i)))] = ":"
        hits == {i \in 1..Len(s) : hit(i)}
        opens == {first(i) : i \in hits}
        shuts == {SkipWord(s, first(i)) - 1 : i \in hits}
    IN  Flatten([i \in 1..Len(s) |->
                    (IF i \in opens THEN <<QUOTE>> ELSE <<>>)
                    \o <<s[i]>>
                    \o (IF i \in shuts THEN <<QUOTE>> ELSE <<>>)],
                1, Len(s))

\* append the closing brackets that the count says are missing
FixClose(s, open, close) ==
    IF Count(s, open) > Count(s, close)
    THEN s \o Repeat(close, Count(s, open) - Count(s, close))
    ELSE s

fix_json_string(json_str) ==
    LET s1 == FixQuotes(json_str)
        s2 == FixTrailing(s1, "}")
        s3 == FixTrailing(s2, "]")
        s4 == FixKeys(s3)
        s5 == FixClose(s4, "[", "]")
    IN  FixClose(s5, "{", "}")

(***************************************************************************)
(* The state of one run.                                                   *)
(*   input            how the response text was composed (not read by the  *)
(*                    program, only by the properties)                     *)
(*   pc               the statement the run is at                          *)
(*   gemini_response  the argument of parse_test_cases: [kind, text]       *)
(*   response_text, json_str, fixed_json_str, parsed_json, test_cases,     *)
(*   valid_test_cases      the locals of parse_test_cases                  *)
(*   out              the diagnostics printed so far, [msg, arg] each      *)
(*   exit_status      the status the process exited with (-1: running)     *)
(*   cases, idx, section_id, created_count, failed_count                   *)
(*                    the argument and locals of create_testrail_cases     *)
(*   requests         the requests sent to TestRail so far                 *)
(*   code_diff        what get_code_changes returned to main               *)
(*   max_retries, retry_delay, retry_count                                 *)
(*                    the arguments and the counter of generate_test_cases *)
(*   gemini_calls     the requests sent to the inference endpoint and the  *)
(*                    waits between them, in order: [op, arg]              *)
(*   testrail_api_key the key create_testrail_cases is called with         *)
(***************************************************************************)
VARIABLES input, pc, gemini_response, response_text, json_str,
          fixed_json_str, parsed_json, test_cases, valid_test_cases, out,
          exit_status, cases, idx, section_id, created_count, failed_count,
          requests, code_diff, max_retries, retry_delay, retry_count,
          gemini_calls, testrail_api_key

vars == <<input, pc, gemini_response, response_text, json_str,
          fixed_json_str, parsed_json, test_cases, valid_test_cases, out,
          exit_status, cases, idx, section_id, created_count, failed_count,
          requests, code_diff, max_retries, retry_delay, retry_count,
          gemini_calls, testrail_api_key>>

run_vars == <<code_diff, max_retries, retry_delay, retry_count,
              gemini_calls, testrail_api_key>>

parse_vars == <<gemini_response, response_text, json_str, fixed_json_str,
                parsed_json, test_cases, valid_test_cases>>

create_vars == <<cases, idx, section_id, created_count, failed_count,
                 requests>>

\* the defaults of --max-retries and --retry-delay
default_max_retries == 3

default_retry_delay == 5

\* a key of twelve characters
LongKey == <<"k", "e", "y", "0", "1", "2", "3", "4", "5", "6", "7", "8">>

\* print(msg) with the list it names, if any
Say(msg) == [msg |-> msg, arg |-> <<>>]

SayKeys(msg, keys) == [msg |-> msg, arg |-> keys]

Said(msg) == \E i \in 1..Len(out) : out[i].msg = msg

(***************************************************************************)
(* parse_test_cases, statement by statement.                               *)
(***************************************************************************)
\* required_fields with its last entry forgotten
required_fields_NoPriority ==
    <<k_title, k_preconditions, k_steps, k_expected_results>>

required_fields ==
    <<k_title, k_preconditions, k_steps, k_expected_results, k_priority>>

IsSubstring(w, s) == \E i \in 1..(Len(s) + 1) : StartsAt(s, i, w)

\* Python's `field in x`: "T", "F", or "TypeError" where x is no container
In(field, x) ==
    CASE x.t = "obj" -> IF HasKey(x.o, field) THEN "T" ELSE "F"
      [] x.t = "str" -> IF IsSubstring(field, x.s) THEN "T" ELSE "F"
      [] x.t = "arr" ->
            IF \E i \in 1..Len(x.a) : x.a[i] = JStr(field) THEN "T" ELSE "F"
      [] OTHER -> "TypeError"

\* all(field in test_case for field in required_fields)
AllFields(test_case) ==
    \A i \in 1..Len(required_fields) :
        In(required_fields[i], test_case) = "T"

\* [f for f in required_fields if f not in test_case]
MissingFields(test_case) ==
    SelectSeq(required_fields, LAMBDA f : In(f, test_case) = "F")

\* the envelope: candidates[0].content.parts[0].text, "" without candidates
\* (lines 286-292); a candidate of another shape, and None for the envelope,
\* raise inside the try
ReadText ==
    /\ pc = "text"
    /\ IF gemini_response.kind \in {"malformed", "none"}
       THEN /\ out' = Append(out, Say("Error parsing Gemini response"))
            /\ exit_status' = 1
            /\ pc' = "exit"
            /\ UNCHANGED response_text
       ELSE LET text == IF gemini_response.kind = "text"
                        THEN gemini_response.text ELSE <<>>
            IN  /\ response_text' = text
                /\ IF text = <<>>
                   THEN /\ out' = Append(out,
                                    Say("Error: Empty response from Gemini"))
                        /\ exit_status' = 1
                        /\ pc' = "exit"
                   ELSE /\ pc' = "locate"
                        /\ UNCHANGED <<out, exit_status>>
    /\ UNCHANGED <<input, gemini_response, json_str, fixed_json_str,
                   parsed_json, test_cases, valid_test_cases>>
    /\ UNCHANGED create_vars
    /\ UNCHANGED run_vars

\* the two searches of lines 299-308 in the other order
LocateCandidate_BracesFirst(text) ==
    IF BraceSearch(text).ok
    THEN [how |-> "braces", str |-> BraceSearch(text).str]
    ELSE IF FencedSearch(text).ok
    THEN [how |-> "fenced", str |-> FencedSearch(text).str]
    ELSE [how |-> "none", str |-> <<>>]

\* lines 299-312: the candidate, [how, str]: the fenced block if the first
\* pattern matches, else the braces if the second does, else none
LocateCandidate(text) ==
    IF FencedSearch(text).ok
    THEN [how |-> "fenced", str |-> FencedSearch(text).str]
    ELSE IF BraceSearch(text).ok
    THEN [how |-> "braces", str |-> BraceSearch(text).str]
    ELSE [how |-> "none", str |-> <<>>]

\* lines 297-312
Locate ==
    /\ pc = "locate"
    /\ LET c == LocateCandidate(response_text)
       IN  CASE c.how = "fenced" ->
                  /\ json_str' = c.str
                  /\ out' = Append(out, Say("Found JSON in code block"))
                  /\ pc' = "strict"
             [] c.how = "braces" ->
                  /\ json_str' = c.str
                  /\ out' = Append(out, Say("Found JSON without code block"))
                  /\ pc' = "strict"
             [] OTHER ->
                  /\ out' = Append(out,
                              Say("Warning: No JSON found in the response"))
                  /\ pc' = "returned"
                  /\ UNCHANGED json_str
    /\ UNCHANGED <<input, gemini_response, response_text, fixed_json_str,
                   parsed_json, test_cases, valid_test_cases, exit_status>>
    /\ UNCHANGED create_vars
    /\ UNCHANGED run_vars

\* lines 317-326 with the repair run whether or not the candidate parses
StrictParse_AlwaysRepair ==
    /\ pc = "strict"
    /\ out' = IF json_loads(json_str).ok THEN out
              ELSE Append(out, Say("Initial JSON parsing error"))
    /\ pc' = "repair"
    /\ UNCHANGED <<input, gemini_response, response_text, json_str,
                   fixed_json_str, parsed_json, test_cases,
                   valid_test_cases, exit_status>>
    /\ UNCHANGED create_vars
    /\ UNCHANGED run_vars

\* lines 317-321: json.loads(json_str)
StrictParse ==
    /\ pc = "strict"
    /\ LET r == json_loads(json_str)
       IN  IF r.ok
           THEN /\ parsed_json' = r.v
                /\ pc' = "container"
                /\ UNCHANGED out
           ELSE /\ out' = Append(out, Say("Initial JSON parsing error"))
                /\ pc' = "repair"
                /\ UNCHANGED parsed_json
    /\ UNCHANGED <<input, gemini_response, response_text, json_str,
                   fixed_json_str, test_cases, valid_test_cases, exit_status>>
    /\ UNCHANGED create_vars
    /\ UNCHANGED run_vars

\* lines 322-326: fixed_json_str = fix_json_string(json_str)
Repair ==
    /\ pc = "repair"
    /\ fixed_json_str' = fix_json_string(json_str)
    /\ out' = Append(out, Say("Attempting to fix JSON formatting issues..."))
    /\ pc' = "reparse"
    /\ UNCHANGED <<input, gemini_response, response_text, json_str,
                   parsed_json, test_cases, valid_test_cases, exit_status>>
    /\ UNCHANGED create_vars
    /\ UNCHANGED run_vars

\* lines 328-334: json.loads(fixed_json_str)
Reparse ==
    /\ pc = "reparse"
    /\ LET r == json_loads(fixed_json_str)
       IN  IF r.ok
           THEN /\ parsed_json' = r.v
                /\ out' = Append(out, Say(
                     "Successfully parsed JSON after fixing formatting issues"))
                /\ pc' = "container"
           ELSE /\ out' = Append(out, Say("Error parsing fixed JSON"))
                /\ pc' = "salvage"
                /\ UNCHANGED parsed_json
    /\ UNCHANGED <<input, gemini_response, response_text, json_str,
                   fixed_json_str, test_cases, valid_test_cases, exit_status>>
    /\ UNCHANGED create_vars
    /\ UNCHANGED run_vars

\* the five patterns matched against the repaired string
SalvageText_Repaired(candidate, repaired) == repaired

\* the text the five patterns of lines 337-341 are matched against
SalvageText(candidate, repaired) == candidate

\* lines 337-357: [ok, v], v the structure built from the five captures
Salvaged(text) ==
    LET found == [i \in 1..5 |-> FieldSearch(text, required_fields[i])]
    IN  IF \A i \in 1..5 : found[i].ok
        THEN [ok |-> TRUE,
              v |-> JObj(<<[k |-> k_test_cases, v |-> JArr(<<
                      JObj([i \in 1..5 |-> [k |-> required_fields[i],
                                            v |-> JStr(found[i].str)]])
                    >>)]>>)]
        ELSE [ok |-> FALSE, v |-> JNull]

\* lines 336-357: the five fields by regular expression
Salvage ==
    /\ pc = "salvage"
    /\ LET r == Salvaged(SalvageText(json_str, fixed_json_str))
       IN  IF r.ok
           THEN /\ parsed_json' = r.v
                /\ out' = Append(out,
                            Say("Created test case structure manually"))
                /\ pc' = "container"
           ELSE /\ out' = Append(out, Say(
                     "Could not extract test case information manually"))
                /\ pc' = "returned"
                /\ UNCHANGED parsed_json
    /\ UNCHANGED <<input, gemini_response, response_text, json_str,
                   fixed_json_str, test_cases, valid_test_cases, exit_status>>
    /\ UNCHANGED create_vars
    /\ UNCHANGED run_vars

\* isinstance(x, list)
IsList(x) == x.t = "arr"

\* line 360: "test_cases" in parsed_json and
\*           isinstance(parsed_json["test_cases"], list)
HasTestCases(x) ==
    /\ In(k_test_cases, x) = "T"
    /\ x.t = "obj"
    /\ IsList(Lookup(x.o, k_test_cases))

\* lines 359-364 taking a single record under "test_cases" for a list of one
Container_WrapsRecord ==
    /\ pc = "container"
    /\ IF HasTestCases(parsed_json)
       THEN /\ test_cases' = Lookup(parsed_json.o, k_test_cases).a
            /\ pc' = "validate"
            /\ UNCHANGED out
       ELSE IF parsed_json.t = "obj" /\ HasKey(parsed_json.o, k_test_cases)
               /\ Lookup(parsed_json.o, k_test_cases).t = "obj"
       THEN /\ test_cases' = <<Lookup(parsed_json.o, k_test_cases)>>
            /\ pc' = "validate"
            /\ UNCHANGED out
       ELSE /\ out' = Append(out, Say(
                 "Warning: Invalid JSON format - 'test_cases' array not found"))
            /\ pc' = "returned"
            /\ UNCHANGED test_cases
    /\ UNCHANGED <<input, gemini_response, response_text, json_str,
                   fixed_json_str, parsed_json, valid_test_cases,
                   exit_status>>
    /\ UNCHANGED create_vars
    /\ UNCHANGED run_vars

\* lines 359-364
Container ==
    /\ pc = "container"
    /\ IF HasTestCases(parsed_json)
       THEN /\ test_cases' = Lookup(parsed_json.o, k_test_cases).a
            /\ pc' = "validate"
            /\ UNCHANGED out
       ELSE /\ out' = Append(out, Say(
                 "Warning: Invalid JSON format - 'test_cases' array not found"))
            /\ pc' = "returned"
            /\ UNCHANGED test_cases
    /\ UNCHANGED <<input, gemini_response, response_text, json_str,
                   fixed_json_str, parsed_json, valid_test_cases,
                   exit_status>>
    /\ UNCHANGED create_vars
    /\ UNCHANGED run_vars

\* the warnings of line 375 for the elements 1..n of test_cases
RECURSIVE Warnings(_, _)
Warnings(list, n) ==
    IF n = 0 THEN <<>>
    ELSE Warnings(list, n - 1)
         \o (IF AllFields(list[n]) THEN <<>>
             ELSE <<SayKeys("Warning: Test case missing required fields",
                            MissingFields(list[n]))>>)

\* lines 366-381: the loop over test_cases; an element that is no container
\* raises TypeError, which the handler of line 379 turns into exit(1)
Validate ==
    /\ pc = "validate"
    /\ LET bad == {i \in 1..Len(test_cases) :
                      In(k_title, test_cases[i]) = "TypeError"}
       IN  IF bad = {}
           THEN /\ valid_test_cases' = SelectSeq(test_cases, AllFields)
                /\ out' = out \o Warnings(test_cases, Len(test_cases))
                /\ pc' = "returned"
                /\ UNCHANGED exit_status
           ELSE /\ out' = Append(out \o Warnings(test_cases, MinOf(bad) - 1),
                                 Say("Error parsing Gemini response"))
                /\ exit_status' = 1
                /\ pc' = "exit"
                /\ UNCHANGED valid_test_cases
    /\ UNCHANGED <<input, gemini_response, response_text, json_str,
                   fixed_json_str, parsed_json, test_cases>>
    /\ UNCHANGED create_vars
    /\ UNCHANGED run_vars

\* parse_test_cases as a function of the response text: what the call ends
\* with, [pc, list] (lines 284-381)
parse_test_cases(text) ==
    LET c == LocateCandidate(text)
        strict == json_loads(c.str)
        fixed == json_loads(fix_json_string(c.str))
        parsed == IF strict.ok THEN strict
                  ELSE IF fixed.ok THEN fixed
                  ELSE Salvaged(c.str)
        list == Lookup(parsed.v.o, k_test_cases).a
    IN  IF text = <<>> THEN [pc |-> "exit", list |-> <<>>]
        ELSE IF c.how = "none" \/ ~parsed.ok \/ ~HasTestCases(parsed.v)
        THEN [pc |-> "returned", list |-> <<>>]
        ELSE IF \E i \in 1..Len(list) : In(k_title, list[i]) = "TypeError"
        THEN [pc |-> "exit", list |-> <<>>]
        ELSE [pc |-> "returned", list |-> SelectSeq(list, AllFields)]

(***************************************************************************)
(* The responses the model answers with.  An input is                      *)
(*   [form, pre, fence, doc, style, cut, suf]                              *)
(* form "doc": the text is pre, then the document doc written in style     *)
(* with its last cut characters missing, inside the fence, then suf;       *)
(* form "prose": the text is pre alone; "nocand": the envelope holds no    *)
(* candidate; "malformed": its first candidate holds no content.           *)
(***************************************************************************)
Pretty == [Strict EXCEPT !.nl = <<"\n", " ">>, !.sep = <<",">>]
SingleQuoted == [Strict EXCEPT !.q = "'"]
BareKeys == [Strict EXCEPT !.kq = FALSE]
TrailingComma == [Strict EXCEPT !.tc = TRUE]
NoComma == [Strict EXCEPT !.sep = <<" ">>]
SingleNoComma == [Strict EXCEPT !.q = "'", !.sep = <<" ">>]

Member(k, v) == [k |-> k, v |-> v]

Chars(c) == JStr(<<c>>)

\* a record with the five required keys
FullRecord(title, priority) ==
    JObj(<<Member(k_title, title), Member(k_preconditions, Chars("p")),
           Member(k_steps, Chars("s")),
           Member(k_expected_results, Chars("e")),
           Member(k_priority, priority)>>)

RecHigh == FullRecord(Chars("t"), JStr(p_High))

\* the five keys, every value the empty string
RecEmpty ==
    JObj(<<Member(k_title, JStr(<<>>)), Member(k_preconditions, JStr(<<>>)),
           Member(k_steps, JStr(<<>>)), Member(k_expected_results, JStr(<<>>)),
           Member(k_priority, JStr(<<>>))>>)

\* no priority
RecNoPriority == JObj(SubSeq(RecHigh.o, 1, 4))

\* expectedResults where the script reads expected_results
k_expectedResults ==
    <<"e", "x", "p", "e", "c", "t", "e", "d",
      "R", "e", "s", "u", "l", "t", "s">>

RecCamel ==
    JObj([i \in 1..5 |->
            IF i = 4 THEN Member(k_expectedResults, Chars("e"))
            ELSE RecHigh.o[i]])

\* an apostrophe in the title, and the optional refs
RecApostrophe ==
    JObj(Append(FullRecord(JStr(<<"a", "'", "b">>), JStr(p_Low)).o,
                Member(k_refs, Chars("r"))))

\* a fenced snippet inside the title
RecFence ==
    FullRecord(JStr(<<"{", "a", "}">> \o w_fence), JStr(p_Medium))

Records == {RecHigh, RecEmpty, RecNoPriority, RecCamel, RecApostrophe}

\* elements of the list that are no records
NonRecords == {JNum(1), Chars("x")}

SeqUpTo(S, n) == UNION {[1..k -> S] : k \in 0..n}

Doc(list) == JObj(<<Member(k_test_cases, JArr(list))>>)

\* documents without a list under "test_cases"
OtherDocs ==
    {JObj(<<>>),
     JObj(<<Member(k_test_cases, Chars("x"))>>),
     JObj(<<Member(k_test_cases, RecHigh)>>),
     JObj(<<Member(k_test_cases, JNull)>>),
     JObj(<<Member(k_title, JArr(<<RecHigh>>))>>),
     JObj(<<Member(k_title, Chars("t")), Member(k_test_cases, JNum(1))>>)}

Prose(pre) ==
    [form |-> "prose", pre |-> pre, fence |-> "none", doc |-> JNull,
     style |-> Strict, cut |-> 0, suf |-> <<>>]

Written(pre, fence, doc, style, cut, suf) ==
    [form |-> "doc", pre |-> pre, fence |-> fence, doc |-> doc,
     style |-> style, cut |-> cut, suf |-> suf]

\* a fenced block of its own, as a model may put before its answer
FencedExample == w_fence \o <<"\n", "{", "}", "\n">> \o w_fence \o <<"\n">>

Prefixes == {<<>>, <<"H", "i", ":", "\n">>, <<"{", "x", "}", " ">>,
             FencedExample}

Suffixes == {<<>>, <<"\n", "o", "k">>, <<"\n", "}", " ">> \o w_fence,
             <<" ", "{">>}

Fences == {"none", "json", "plain"}

\* the JSON text J of an input
Body(in) ==
    LET full == Dumps(in.doc, in.style)
    IN  SubSeq(full, 1, Len(full) - in.cut)

Fenced(fence, J) ==
    CASE fence = "json" -> w_fence \o w_json \o <<"\n">> \o J
                           \o <<"\n">> \o w_fence
      [] fence = "plain" -> w_fence \o J \o w_fence
      [] OTHER -> J

\* the response text of an input
Compose(in) ==
    IF in.form = "doc"
    THEN in.pre \o Fenced(in.fence, Body(in)) \o in.suf
    ELSE in.pre

Envelope(in) ==
    CASE in.form = "nocand" -> [kind |-> "nocand", text |-> <<>>]
      [] in.form = "malformed" -> [kind |-> "malformed", text |-> <<>>]
      [] OTHER -> [kind |-> "text", text |-> Compose(in)]

\* clean documents: every list of up to MaxRecords elements
CleanInputs ==
    {Written(<<>>, "none", Doc(l), Strict, 0, <<>>) :
        l \in SeqUpTo(Records \cup NonRecords, MaxRecords)}
    \cup {Written(<<>>, "none", d, Strict, 0, <<>>) : d \in OtherDocs}

\* documents inside prose and fences
WrappedDocs ==
    {<<Doc(<<RecHigh, RecHigh>>), Strict>>,
     <<Doc(<<RecApostrophe, RecNoPriority>>), Pretty>>,
     <<JObj(<<Member(k_title, Chars("t"))>>), Strict>>,
     <<Doc(<<RecFence>>), Strict>>}

WrappedInputs ==
    {Written(pre, f, d[1], d[2], 0, suf) :
        pre \in Prefixes, f \in Fences, d \in WrappedDocs, suf \in Suffixes}

\* near-JSON, and documents cut off at the end
DamagedLists == SeqUpTo({RecHigh, RecNoPriority, RecApostrophe}, MaxRecords)

DamagedInputs ==
    {Written(<<>>, "none", Doc(l), st, 0, <<>>) :
        l \in DamagedLists,
        st \in {SingleQuoted, BareKeys, TrailingComma, NoComma,
                SingleNoComma}}
    \cup {Written(pre, "none", Doc(l), st, c, <<>>) :
            pre \in {<<>>, w_fence \o w_json \o <<"\n">>},
            l \in DamagedLists, st \in {Strict, Pretty}, c \in 1..2}

OtherInputs ==
    {Prose(<<>>), Prose(<<"N", "o", ".">>), Prose(<<"}", " ", "{">>),
     [Prose(<<>>) EXCEPT !.form = "nocand"],
     [Prose(<<>>) EXCEPT !.form = "malformed"]}

ParseInputs == CleanInputs \cup WrappedInputs \cup DamagedInputs
               \cup OtherInputs

(***************************************************************************)
(* parse_test_cases called on each response.                               *)
(***************************************************************************)
InitParse ==
    /\ input \in ParseInputs
    /\ pc = "text"
    /\ gemini_response = Envelope(input)
    /\ response_text = <<>>
    /\ json_str = <<>>
    /\ fixed_json_str = <<>>
    /\ parsed_json = JNull
    /\ test_cases = <<>>
    /\ valid_test_cases = <<>>
    /\ out = <<>>
    /\ exit_status = -1
    /\ cases = <<>>
    /\ idx = 0
    /\ section_id = 0
    /\ created_count = 0
    /\ failed_count = 0
    /\ requests = <<>>
    /\ code_diff = <<>>
    /\ max_retries = default_max_retries
    /\ retry_delay = default_retry_delay
    /\ retry_count = 0
    /\ gemini_calls = <<>>
    /\ testrail_api_key = LongKey

NextParse ==
    \/ ReadText
    \/ Locate
    \/ StrictParse
    \/ Repair
    \/ Reparse
    \/ Salvage
    \/ Container
    \/ Validate

SpecParse == InitParse /\ [][NextParse]_vars

(***************************************************************************)
(* create_testrail_cases.  A request sent to TestRail is logged as         *)
(*   [api, section_id, case, priority_id, title, ok]                       *)
(* case the position in the list of the record an add_case is sent for,    *)
(* ok whether the request was answered without an error status.            *)
(***************************************************************************)
priority_map ==
    <<Member(p_Critical, 1), Member(p_High, 2), Member(p_Medium, 3),
      Member(p_Low, 4)>>

\* d.get(key, default) of a dict
Get(test_case, key, default) ==
    IF HasKey(test_case.o, key) THEN Lookup(test_case.o, key) ELSE default

\* a list or a dict cannot be hashed: dict.get raises TypeError on it
Hashable(x) == x.t \notin {"arr", "obj"}

\* line 579: priority_map.get(priority, 3)
PriorityId(priority) ==
    IF priority.t = "str" /\ HasKey(priority_map, priority.s)
    THEN Lookup(priority_map, priority.s)
    ELSE 3

Sent(api, section, case, priority_id, title, ok) ==
    [api |-> api, section_id |-> section, case |-> case,
     priority_id |-> priority_id, title |-> title, ok |-> ok]

\* the sections get_sections may answer with: [name, id]
k_generic == <<"g", "e", "n", "e", "r", "i", "c">>
k_smoke == <<"s", "m", "o", "k", "e">>

SectionLists ==
    {<<>>,
     <<[name |-> k_smoke, id |-> 3]>>,
     <<[name |-> k_smoke, id |-> 3], [name |-> k_generic, id |-> 5]>>,
     <<[name |-> k_generic, id |-> 5], [name |-> k_generic, id |-> 6]>>,
     <<[name |-> k_generic, id |-> 0], [name |-> k_generic, id |-> 6]>>}

\* lines 555-560: the id of the first section named "generic" (0: none)
FindGeneric(sections) ==
    LET hits == {i \in 1..Len(sections) : sections[i].name = k_generic}
    IN  IF hits = {} THEN 0 ELSE sections[MinOf(hits)].id

\* line 524: the first four characters, a star for every character beyond
\* eight, the last four characters
MaskKey(key) ==
    SubSeq(key, 1, IF Len(key) < 4 THEN Len(key) ELSE 4)
    \o Repeat("*", Len(key) - 8)
    \o SubSeq(key, IF Len(key) < 4 THEN 1 ELSE Len(key) - 3, Len(key))

\* lines 505-507 without the return
CheckEmpty_NoReturn ==
    /\ pc = "create"
    /\ pc' = "connect"
    /\ out' = Append(out, SayKeys("Using TestRail authentication",
                                  MaskKey(testrail_api_key)))
    /\ UNCHANGED <<input, exit_status, cases, idx, section_id,
                   created_count, failed_count, requests>>
    /\ UNCHANGED parse_vars
    /\ UNCHANGED run_vars

\* lines 505-535: nothing to create, or the session is set up and the key
\* printed masked
CheckEmpty ==
    /\ pc = "create"
    /\ IF cases = <<>>
       THEN /\ out' = Append(out, Say("No test cases to create"))
            /\ pc' = "created"
       ELSE /\ pc' = "connect"
            /\ out' = Append(out, SayKeys("Using TestRail authentication",
                                          MaskKey(testrail_api_key)))
    /\ UNCHANGED <<input, exit_status, cases, idx, section_id,
                   created_count, failed_count, requests>>
    /\ UNCHANGED parse_vars
    /\ UNCHANGED run_vars

\* lines 537-549: get_projects; a RequestException ends the process
TestConnection ==
    /\ pc = "connect"
    /\ \E ok \in BOOLEAN :
         /\ requests' = Append(requests,
                               Sent("get_projects", 0, 0, 0, JNull, ok))
         /\ IF ok
            THEN /\ out' = Append(out,
                              Say("TestRail API connection successful"))
                 /\ pc' = "sections"
                 /\ UNCHANGED exit_status
            ELSE /\ out' = Append(out,
                              Say("Error connecting to TestRail API"))
                 /\ exit_status' = 1
                 /\ pc' = "exit"
    /\ UNCHANGED <<input, cases, idx, section_id, created_count,
                   failed_count>>
    /\ UNCHANGED parse_vars
    /\ UNCHANGED run_vars

\* lines 555-560: a section named "generic" is in the list
FoundGeneric(sections) ==
    \E i \in 1..Len(sections) : sections[i].name = k_generic

\* lines 552-560 with get_testrail_sections (415-434): the body is a list of
\* sections; or a RequestException yields the empty list; or the body is an
\* object, whose keys have no get, and nothing catches the AttributeError
GetSections ==
    /\ pc = "sections"
    /\ \E shape \in {"list", "error", "object"}, answer \in SectionLists :
         LET sections == IF shape = "list" THEN answer ELSE <<>>
         IN  /\ shape # "list" => answer = <<>>
             /\ requests' = Append(requests,
                                   Sent("get_sections", FindGeneric(sections),
                                        0, 0, JNull, shape # "error"))
             /\ IF shape = "object"
                THEN /\ out' = Append(out, Say("Traceback"))
                     /\ exit_status' = 1
                     /\ pc' = "exit"
                     /\ UNCHANGED section_id
                ELSE /\ section_id' = FindGeneric(sections)
                     /\ out' = out
                          \o (IF shape = "list" THEN <<>>
                              ELSE <<Say("Error getting TestRail sections")>>)
                          \o (IF FoundGeneric(sections)
                              THEN <<Say("Found existing 'generic' section")>>
                              ELSE <<>>)
                     /\ pc' = IF FindGeneric(sections) # 0 THEN "loop"
                              ELSE "section"
                     /\ UNCHANGED exit_status
    /\ UNCHANGED <<input, cases, idx, created_count, failed_count>>
    /\ UNCHANGED parse_vars
    /\ UNCHANGED run_vars

\* lines 563-567 going on to the loop whatever create_default_section returns
CreateSection_Unchecked ==
    /\ pc = "section"
    /\ \E id \in {0, 7} :
         /\ requests' = Append(requests,
                               Sent("add_section", id, 0, 0, JNull, id # 0))
         /\ section_id' = id
         /\ out' = Append(out, Say("Created new section 'generic'"))
         /\ pc' = "loop"
    /\ UNCHANGED <<input, exit_status, cases, idx, created_count,
                   failed_count>>
    /\ UNCHANGED parse_vars
    /\ UNCHANGED run_vars

\* lines 563-567 with create_default_section (468-490): the id of the new
\* section, None (0 here) after a RequestException or without an id
CreateSection ==
    /\ pc = "section"
    /\ \E id \in {0, 7} :
         /\ requests' = Append(requests,
                               Sent("add_section", id, 0, 0, JNull, id # 0))
         /\ section_id' = id
         /\ IF id # 0
            THEN /\ out' = Append(out, Say("Created new section 'generic'"))
                 /\ pc' = "loop"
                 /\ UNCHANGED exit_status
            ELSE /\ out' = Append(out, Say(
                      "Failed to create a 'generic' section. Cannot add test cases."))
                 /\ exit_status' = 1
                 /\ pc' = "exit"
    /\ UNCHANGED <<input, cases, idx, created_count, failed_count>>
    /\ UNCHANGED parse_vars
    /\ UNCHANGED run_vars

\* lines 569-616: one turn of the loop, for the record cases[idx + 1]
AddCase ==
    /\ pc = "loop"
    /\ idx < Len(cases)
    /\ LET test_case == cases[idx + 1]
           priority == Get(test_case, k_priority, JStr(p_Medium))
       IN  IF test_case.t # "obj" \/ ~Hashable(priority)
           THEN \* AttributeError or TypeError: handled at line 614
                /\ failed_count' = failed_count + 1
                /\ out' = Append(out, Say("Error creating test case"))
                /\ UNCHANGED <<created_count, requests>>
           ELSE \E ok \in BOOLEAN :
                  /\ requests' = Append(requests,
                       Sent("add_case", section_id, idx + 1,
                            PriorityId(priority),
                            Get(test_case, k_title, JStr(<<>>)), ok))
                  /\ IF ok
                     THEN /\ created_count' = created_count + 1
                          /\ out' = Append(out, Say("Created test case"))
                          /\ UNCHANGED failed_count
                     ELSE /\ failed_count' = failed_count + 1
                          /\ out' = Append(out,
                                      Say("Failed to create test case"))
                          /\ UNCHANGED created_count
    /\ idx' = idx + 1
    /\ UNCHANGED <<input, pc, exit_status, cases, section_id>>
    /\ UNCHANGED parse_vars
    /\ UNCHANGED run_vars

\* line 618: the loop is over
Summary ==
    /\ pc = "loop"
    /\ idx = Len(cases)
    /\ out' = Append(out, Say("Summary"))
    /\ pc' = "created"
    /\ UNCHANGED <<input, exit_status>>
    /\ UNCHANGED create_vars
    /\ UNCHANGED parse_vars
    /\ UNCHANGED run_vars

\* the records create_testrail_cases is called with
CaseRecords ==
    {FullRecord(Chars("t"), JStr(p_Critical)),
     FullRecord(Chars("u"), JStr(p_High)),
     FullRecord(Chars("v"), JStr(p_Medium)),
     FullRecord(Chars("w"), JStr(p_Low)),
     FullRecord(Chars("x"), JStr(<<"l", "o", "w">>)),
     FullRecord(Chars("y"), JArr(<<JStr(p_High)>>)),
     FullRecord(Chars("z"), JNull),
     RecNoPriority}

InitCreate ==
    /\ input = Prose(<<>>)
    /\ pc = "create"
    /\ cases \in SeqUpTo(CaseRecords, MaxCases)
    /\ gemini_response = Envelope(input)
    /\ response_text = <<>>
    /\ json_str = <<>>
    /\ fixed_json_str = <<>>
    /\ parsed_json = JNull
    /\ test_cases = <<>>
    /\ valid_test_cases = <<>>
    /\ out = <<>>
    /\ exit_status = -1
    /\ idx = 0
    /\ section_id = 0
    /\ created_count = 0
    /\ failed_count = 0
    /\ requests = <<>>
    /\ code_diff = <<>>
    /\ max_retries = default_max_retries
    /\ retry_delay = default_retry_delay
    /\ retry_count = 0
    /\ gemini_calls = <<>>
    /\ testrail_api_key = LongKey

NextCreate ==
    \/ CheckEmpty
    \/ TestConnection
    \/ GetSections
    \/ CreateSection
    \/ AddCase
    \/ Summary

SpecCreate == InitCreate /\ [][NextCreate]_vars

(***************************************************************************)
(* generate_test_cases: the retry loop of lines 173-236.  What one         *)
(* requests.post does is an answer [raised, status, body]: raised, the     *)
(* call raised a RequestException that carries the response of that status *)
(* (0: no response); else a response of that status, whose body is the     *)
(* JSON object of the run, another JSON value, or no JSON at all.          *)
(***************************************************************************)
Answer(raised, status, body) ==
    [raised |-> raised, status |-> status, body |-> body]

GeminiAnswers ==
    {Answer(TRUE, 0, "none"), Answer(TRUE, 302, "none"),
     Answer(FALSE, 429, "none"), Answer(FALSE, 500, "none"),
     Answer(FALSE, 200, "object"), Answer(FALSE, 200, "number"),
     Answer(FALSE, 200, "garbage")}

\* bool(e.response): None is false, and a Response is true when it is ok,
\* which is when raise_for_status would not raise
Truthy(status) == status # 0 /\ status < 400

\* what a turn of the loop ends in: where the run goes, the counter, the
\* waits done, the diagnostics
Outcome(next, count, waits, msgs) ==
    [next |-> next, retry_count |-> count, waits |-> waits, msgs |-> msgs]

\* time.sleep(secs) and what follows it; a negative length raises ValueError,
\* which nothing catches
Sleep(secs, count, msgs) ==
    IF secs < 0
    THEN Outcome("exit", count, <<>>, msgs \o <<Say("Traceback")>>)
    ELSE Outcome("gen_loop", count, <<secs>>, msgs)

\* lines 219-236: the handler of RequestException, e.response of that status
OnRequestException(status, count, retries, delay) ==
    LET msgs == <<Say("Error calling Gemini API")>>
    IN  IF Truthy(status)
        THEN IF status # 429 \/ count >= retries
             THEN Outcome("exit", count, <<>>, msgs)
             ELSE Sleep(delay * (count + 1), count + 1,
                        msgs \o <<Say("Rate limit exceeded. Retrying")>>)
        ELSE Outcome("exit", count, <<>>, msgs)

\* raise_for_status raises for the statuses 400..599
RaisesForStatus(status) == status >= 400 /\ status < 600

\* lines 196-217: the body is decoded, logged and returned
OnBody(body, envelope, count, retries, delay) ==
    CASE body = "garbage" ->
           \* response.json() raises a RequestException without response
           OnRequestException(0, count, retries, delay)
      [] body = "number" ->
           \* "candidates" in response_json raises TypeError
           Outcome("exit", count, <<>>, <<Say("Traceback")>>)
      [] envelope.kind = "malformed" ->
           \* candidates[0]["content"] raises KeyError
           Outcome("exit", count, <<>>, <<Say("Traceback")>>)
      [] envelope.kind = "nocand" ->
           Outcome("generated", count, <<>>,
                   <<Say("Warning: Unexpected response format")>>)
      [] OTHER -> Outcome("generated", count, <<>>, <<>>)

\* lines 181-190 waiting retry_delay seconds whatever the attempt
OnRateLimit_ConstantDelay(count, retries, delay) ==
    IF count + 1 <= retries
    THEN Sleep(delay, count + 1, <<Say("Rate limit exceeded. Retrying")>>)
    ELSE LET r == OnRequestException(429, count + 1, retries, delay)
         IN  [r EXCEPT !.msgs =
                <<Say("Maximum retry attempts reached. Exiting.")>>
                \o r.msgs]

\* lines 181-190 without the else branch: wait and continue, always
OnRateLimit_NoLimit(count, retries, delay) ==
    Sleep(delay * (count + 1), count + 1,
          <<Say("Rate limit exceeded. Retrying")>>)

\* lines 181-190: the response has status 429
OnRateLimit(count, retries, delay) ==
    IF count + 1 <= retries
    THEN Sleep(delay * (count + 1), count + 1,
               <<Say("Rate limit exceeded. Retrying")>>)
    ELSE LET r == OnRequestException(429, count + 1, retries, delay)
         IN  [r EXCEPT !.msgs =
                <<Say("Maximum retry attempts reached. Exiting.")>>
                \o r.msgs]

\* lines 176-236: one turn of the loop, the request answered by a
Turn(a, envelope, count, retries, delay) ==
    IF a.raised
    THEN OnRequestException(a.status, count, retries, delay)
    ELSE IF a.status = 429
    THEN OnRateLimit(count, retries, delay)
    ELSE IF RaisesForStatus(a.status)
    THEN OnRequestException(a.status, count, retries, delay)
    ELSE OnBody(a.body, envelope, count, retries, delay)

NoResponse == [kind |-> "none", text |-> <<>>]

\* lines 175-236: the loop test and one turn; when the test fails the
\* function ends without a return statement
Attempt ==
    /\ pc = "gen_loop"
    /\ IF retry_count > max_retries
       THEN /\ pc' = "gen_none"
            /\ UNCHANGED <<gemini_response, out, exit_status, retry_count,
                           gemini_calls>>
       ELSE \E a \in GeminiAnswers :
              LET r == Turn(a, Envelope(input), retry_count, max_retries,
                            retry_delay)
              IN  /\ pc' = r.next
                  /\ retry_count' = r.retry_count
                  /\ gemini_calls' =
                       Append(gemini_calls,
                              [op |-> "post",
                               arg |-> IF a.raised THEN 0 ELSE a.status])
                       \o [i \in 1..Len(r.waits) |->
                             [op |-> "sleep", arg |-> r.waits[i]]]
                  /\ out' = out \o r.msgs
                  /\ exit_status' = IF r.next = "exit" THEN 1
                                    ELSE exit_status
                  /\ gemini_response' = IF r.next = "generated"
                                        THEN Envelope(input)
                                        ELSE gemini_response
    /\ UNCHANGED <<input, response_text, json_str, fixed_json_str,
                   parsed_json, test_cases, valid_test_cases, code_diff,
                   max_retries, retry_delay, testrail_api_key>>
    /\ UNCHANGED create_vars

\* the responses the inference endpoint may give in a run
TwoRecords == Written(<<>>, "json", Doc(<<RecHigh, RecApostrophe>>), Pretty,
                      0, <<>>)

GenerateInputs ==
    {TwoRecords,
     Written(<<>>, "none", Doc(<<>>), Strict, 0, <<>>),
     [Prose(<<>>) EXCEPT !.form = "nocand"],
     [Prose(<<>>) EXCEPT !.form = "malformed"]}

RetryDelays == {-1, 0, 2, default_retry_delay}

InitGenerate ==
    /\ input \in GenerateInputs
    /\ pc = "gen_loop"
    /\ max_retries \in 0..MaxRetries
    /\ retry_delay \in RetryDelays
    /\ retry_count = 0
    /\ gemini_calls = <<>>
    /\ gemini_response = NoResponse
    /\ code_diff = <<"+">>
    /\ testrail_api_key = LongKey
    /\ response_text = <<>>
    /\ json_str = <<>>
    /\ fixed_json_str = <<>>
    /\ parsed_json = JNull
    /\ test_cases = <<>>
    /\ valid_test_cases = <<>>
    /\ out = <<>>
    /\ exit_status = -1
    /\ cases = <<>>
    /\ idx = 0
    /\ section_id = 0
    /\ created_count = 0
    /\ failed_count = 0
    /\ requests = <<>>

NextGenerate == Attempt

SpecGenerate == InitGenerate /\ [][NextGenerate]_vars

\* every request is answered in the end: a turn that can be taken is taken
SpecGenerateLive == SpecGenerate /\ WF_vars(Attempt)

\* the keys create_testrail_cases may be given: every string of a and b of
\* one to MaxKeyLen characters
ApiKeys == UNION {[1..n -> {"a", "b"}] : n \in 1..MaxKeyLen}

InitMask ==
    /\ input = Prose(<<>>)
    /\ pc = "create"
    /\ cases = <<RecHigh>>
    /\ testrail_api_key \in ApiKeys
    /\ gemini_response = Envelope(input)
    /\ response_text = <<>>
    /\ json_str = <<>>
    /\ fixed_json_str = <<>>
    /\ parsed_json = JNull
    /\ test_cases = <<>>
    /\ valid_test_cases = <<>>
    /\ out = <<>>
    /\ exit_status = -1
    /\ idx = 0
    /\ section_id = 0
    /\ created_count = 0
    /\ failed_count = 0
    /\ requests = <<>>
    /\ code_diff = <<>>
    /\ max_retries = default_max_retries
    /\ retry_delay = default_retry_delay
    /\ retry_count = 0
    /\ gemini_calls = <<>>

SpecMask == InitMask /\ [][NextCreate]_vars

(***************************************************************************)
(* main: the four calls of lines 647-692, one after the other.             *)
(***************************************************************************)
\* the diffs git may print: none, or some text
Diffs == {<<>>, <<"+">>}

\* line 656 with get_code_changes (lines 42-53): the diff, or the process
\* ends when git fails
GetCodeChanges ==
    /\ pc = "main"
    /\ \/ \E diff \in Diffs :
            /\ code_diff' = diff
            /\ pc' = "diff"
            /\ UNCHANGED <<out, exit_status>>
       \/ /\ out' = Append(out, Say("Error executing git diff"))
          /\ exit_status' = 1
          /\ pc' = "exit"
          /\ UNCHANGED code_diff
    /\ UNCHANGED <<input, max_retries, retry_delay, retry_count,
                   gemini_calls, testrail_api_key>>
    /\ UNCHANGED parse_vars
    /\ UNCHANGED create_vars

\* lines 658-673: leave with status 0 without a diff, else call
\* generate_test_cases (line 174: retry_count = 0)
CheckDiff ==
    /\ pc = "diff"
    /\ IF code_diff = <<>>
       THEN /\ out' = Append(out, Say("No code changes found"))
            /\ exit_status' = 0
            /\ pc' = "exit"
            /\ UNCHANGED retry_count
       ELSE /\ retry_count' = 0
            /\ pc' = "gen_loop"
            /\ UNCHANGED <<out, exit_status>>
    /\ UNCHANGED <<input, code_diff, max_retries, retry_delay, gemini_calls,
                   testrail_api_key>>
    /\ UNCHANGED parse_vars
    /\ UNCHANGED create_vars

\* lines 675-677: parse_test_cases is called with what generate_test_cases
\* returned
CallParse ==
    /\ pc \in {"generated", "gen_none"}
    /\ gemini_response' = IF pc = "gen_none" THEN NoResponse
                          ELSE gemini_response
    /\ pc' = "text"
    /\ UNCHANGED <<input, out, exit_status, response_text, json_str,
                   fixed_json_str, parsed_json, test_cases,
                   valid_test_cases>>
    /\ UNCHANGED create_vars
    /\ UNCHANGED run_vars

\* lines 679-690: create_testrail_cases is called with what parse_test_cases
\* returned
CallCreate ==
    /\ pc = "returned"
    /\ cases' = valid_test_cases
    /\ out' = Append(out, Say("Creating test cases in TestRail..."))
    /\ pc' = "create"
    /\ UNCHANGED <<input, exit_status, idx, section_id, created_count,
                   failed_count, requests>>
    /\ UNCHANGED parse_vars
    /\ UNCHANGED run_vars

\* line 692
Done ==
    /\ pc = "created"
    /\ out' = Append(out, Say("Done!"))
    /\ pc' = "done"
    /\ UNCHANGED <<input, exit_status>>
    /\ UNCHANGED parse_vars
    /\ UNCHANGED create_vars
    /\ UNCHANGED run_vars

\* what the inference endpoint answers with in a run of main
MainInputs ==
    GenerateInputs
    \cup {Prose(<<"N", "o", ".">>),
          Written(<<>>, "none", Doc(<<RecNoPriority>>), Strict, 0, <<>>),
          Written(<<>>, "none", Doc(<<RecHigh>>), Strict, 2, <<>>),
          Written(<<>>, "none", Doc(<<RecHigh>>), NoComma, 0, <<>>)}

InitMain ==
    /\ input \in MainInputs
    /\ pc = "main"
    /\ max_retries \in 0..MaxRetries
    /\ retry_delay = default_retry_delay
    /\ retry_count = 0
    /\ gemini_calls = <<>>
    /\ gemini_response = NoResponse
    /\ code_diff = <<>>
    /\ testrail_api_key = LongKey
    /\ response_text = <<>>
    /\ json_str = <<>>
    /\ fixed_json_str = <<>>
    /\ parsed_json = JNull
    /\ test_cases = <<>>
    /\ valid_test_cases = <<>>
    /\ out = <<>>
    /\ exit_status = -1
    /\ cases = <<>>
    /\ idx = 0
    /\ section_id = 0
    /\ created_count = 0
    /\ failed_count = 0
    /\ requests = <<>>

NextMain ==
    \/ GetCodeChanges
    \/ CheckDiff
    \/ Attempt
    \/ CallParse
    \/ NextParse
    \/ CallCreate
    \/ NextCreate
    \/ Done

SpecMain == InitMain /\ [][NextMain]_vars

(***************************************************************************)
(* Properties.                                                             *)
(***************************************************************************)
Ended == pc \in {"returned", "exit"}

\* the list under "test_cases" of a document
ListOf(doc) == Lookup(doc.o, k_test_cases).a

\* a value that holds a list under "test_cases"
ListUnderKey(x) ==
    /\ x.t = "obj"
    /\ HasKey(x.o, k_test_cases)
    /\ Lookup(x.o, k_test_cases).t = "arr"

\* a value that holds a list of objects under "test_cases"
ListOfRecords(x) ==
    /\ ListUnderKey(x)
    /\ \A i \in 1..Len(ListOf(x)) : ListOf(x)[i].t = "obj"

HasKeys(r, keys) == \A k \in keys : HasKey(r.o, k)

\* the response is the strict JSON text of the document and nothing else
Clean(in) ==
    /\ in.form = "doc"
    /\ in.style = Strict
    /\ in.cut = 0
    /\ in.fence = "none"
    /\ in.pre = <<>>
    /\ in.suf = <<>>

\* the five keys as the script reads them, and as section 3 of the
\* specification names them
CodeKeys ==
    {k_title, k_preconditions, k_steps, k_expected_results, k_priority}

ClaimedKeys ==
    {k_title, k_preconditions, k_steps, k_expectedResults, k_priority}

\* C1: for every response text, parse_test_cases returns a list to its
\* caller: the process never exits inside it.
C1_AlwaysReturns ==
    gemini_response.kind = "text" => (pc # "exit" /\ exit_status = -1)

\* the call returns exactly the records that hold every key of keys, in
\* their order: of the parsed value, and of the document as it was written
KeepsExactly(keys) ==
    /\ ListOfRecords(parsed_json) => pc # "exit"
    /\ (pc = "returned" /\ ListOfRecords(parsed_json))
         => valid_test_cases =
              SelectSeq(ListOf(parsed_json), LAMBDA r : HasKeys(r, keys))
    /\ (Ended /\ Clean(input) /\ ListOfRecords(input.doc))
         => /\ pc = "returned"
            /\ valid_test_cases =
                 SelectSeq(ListOf(input.doc), LAMBDA r : HasKeys(r, keys))

\* C2 as claimed: the records returned are exactly those that hold the keys
\* title, preconditions, steps, expectedResults and priority.
C2_ClaimedKeys == KeepsExactly(ClaimedKeys)

\* C2 as amended: when the parsed value holds a list of records, the call
\* returns exactly the records in which title, preconditions, steps,
\* expected_results and priority are all present, in their original order,
\* whatever the values.
C2_Theorem == KeepsExactly(CodeKeys)

\* a record of empty strings is kept and a record without priority dropped
C2_Witness ==
    /\ pc = "returned"
    /\ Clean(input)
    /\ input.doc = Doc(<<RecNoPriority, RecEmpty>>)
    /\ valid_test_cases = <<RecEmpty>>

InvalidFormat ==
    Say("Warning: Invalid JSON format - 'test_cases' array not found")

\* C3: a parsed value without a list under "test_cases" makes the call
\* return the empty list, with the invalid-format diagnostic.
C3_Theorem ==
    /\ (parsed_json.t = "obj" /\ ~ListUnderKey(parsed_json))
         => /\ pc \in {"container", "returned"}
            /\ valid_test_cases = <<>>
            /\ pc = "returned" => out[Len(out)] = InvalidFormat
    /\ (Ended /\ Clean(input) /\ input.doc \in OtherDocs)
         => /\ pc = "returned"
            /\ valid_test_cases = <<>>
            /\ out[Len(out)] = InvalidFormat

\* the key is there, its value a valid record instead of a list
C3_Witness ==
    /\ pc = "returned"
    /\ parsed_json = JObj(<<Member(k_test_cases, RecHigh)>>)
    /\ valid_test_cases = <<>>

PastLocate == pc \notin {"text", "locate"} /\ response_text # <<>>

NoJsonFound == Say("Warning: No JSON found in the response")

\* C4: the fenced block is the candidate whenever the fenced pattern
\* matches, the braces only when it does not, and when neither matches the
\* call returns the empty list at once, nothing parsed, repaired or salvaged.
C4_Theorem ==
    PastLocate =>
      /\ FencedSearch(response_text).ok
           => /\ out[1] = Say("Found JSON in code block")
              /\ json_str = FencedSearch(response_text).str
      /\ (~FencedSearch(response_text).ok /\ BraceSearch(response_text).ok)
           => /\ out[1] = Say("Found JSON without code block")
              /\ json_str = BraceSearch(response_text).str
      /\ (~FencedSearch(response_text).ok /\ ~BraceSearch(response_text).ok)
           => /\ pc = "returned"
              /\ out = <<NoJsonFound>>
              /\ valid_test_cases = <<>>
              /\ json_str = <<>>
              /\ fixed_json_str = <<>>
              /\ parsed_json = JNull
      /\ Count(response_text, "{") = 0 => out = <<NoJsonFound>>
      /\ (input.form = "doc" /\ input.fence # "none" /\ input.cut = 0
          /\ ~IsSubstring(w_fence, input.pre)
          /\ ~IsSubstring(w_fence, Body(input)))
           => json_str = Body(input)

\* braces in the prose before a fenced block: the fenced block is taken
C4_Witness ==
    /\ pc = "strict"
    /\ input.pre = <<"{", "x", "}", " ">>
    /\ input.fence = "json"
    /\ out = <<Say("Found JSON in code block")>>
    /\ json_str = Body(input)

Times(msg, log) == Cardinality({i \in 1..Len(log) : log[i].msg = msg})

C5_Step ==
    /\ pc' = "repair"
         => (pc = "strict" /\ ~json_loads(json_str).ok
             /\ fixed_json_str = <<>>)
    /\ pc' = "reparse" => pc = "repair"
    /\ pc' = "salvage"
         => (pc = "reparse" /\ ~json_loads(fixed_json_str).ok)
    /\ (pc = "strict" /\ json_loads(json_str).ok)
         => /\ pc' = "container"
            /\ parsed_json' = json_loads(json_str).v
            /\ fixed_json_str' = <<>>
            /\ out' = out
    /\ fixed_json_str' # fixed_json_str => pc = "repair"
    /\ Times("Attempting to fix JSON formatting issues...", out') <= 1

\* C5: the repair is run only after the strict parse failed, and once; the
\* salvage only after the parse of the repaired string failed too; a
\* candidate that parses goes to validation unrepaired.
C5_Theorem == [][C5_Step]_vars

\* all three stages were needed
C5_Witness ==
    /\ pc = "salvage"
    /\ Len(out) = 4
    /\ out[4] = Say("Error parsing fixed JSON")
    /\ fixed_json_str # <<>>

\* the five patterns, and the record built from what they capture in text
SalvageKeys ==
    <<k_title, k_preconditions, k_steps, k_expected_results, k_priority>>

AllCaptured(text) == \A i \in 1..5 : FieldSearch(text, SalvageKeys[i]).ok

CapturedRecord(text) ==
    JObj([i \in 1..5 |->
            Member(SalvageKeys[i], JStr(FieldSearch(text, SalvageKeys[i]).str))])

\* C6: after both parses failed the result is the one record captured from
\* the unrepaired candidate if all five patterns match it, else empty.
C6_Theorem ==
    /\ Said("Error parsing fixed JSON")
         => /\ pc # "exit"
            /\ pc = "returned"
                 => valid_test_cases =
                      IF AllCaptured(json_str)
                      THEN <<CapturedRecord(json_str)>>
                      ELSE <<>>
    /\ (pc = "returned" /\ input.form = "doc" /\ input.style = NoComma
        /\ ListOf(input.doc) # <<>>
        /\ HasKeys(ListOf(input.doc)[1], CodeKeys))
         => valid_test_cases = <<JObj(SubSeq(ListOf(input.doc)[1].o, 1, 5))>>
    /\ (pc = "returned" /\ input.form = "doc"
        /\ input.style = SingleNoComma)
         => valid_test_cases = <<>>

\* two records without commas: the first one is recovered
C6_Witness ==
    /\ pc = "returned"
    /\ input.style = NoComma
    /\ input.doc = Doc(<<RecHigh, RecApostrophe>>)
    /\ out[Len(out)] = Say("Created test case structure manually")
    /\ valid_test_cases = <<RecHigh>>

\* the response is a JSON object inside a fence, prose around it
Wrapped(in) ==
    /\ in.form = "doc"
    /\ in.fence # "none"
    /\ in.cut = 0
    /\ in.style \in {Strict, Pretty}
    /\ in.doc.t = "obj"

SameAsUnwrapped ==
    [pc |-> pc, list |-> valid_test_cases] = parse_test_cases(Body(input))

\* C7 as claimed: whatever the prose around the fenced block, the call
\* returns what it returns on J alone.
C7_AnyProse == (Ended /\ Wrapped(input)) => SameAsUnwrapped

\* C7 as amended: if neither J nor the prose before the fenced block holds
\* a code fence, the call returns what it returns on J alone, whatever the
\* prose after the block.
C7_Theorem ==
    (Ended /\ Wrapped(input)
     /\ ~IsSubstring(w_fence, input.pre)
     /\ ~IsSubstring(w_fence, Body(input)))
      => SameAsUnwrapped

\* prose before, and a brace and a fence after the block
C7_Witness ==
    /\ pc = "returned"
    /\ Wrapped(input)
    /\ input.pre = <<"H", "i", ":", "\n">>
    /\ input.suf = <<"\n", "}", " ">> \o w_fence
    /\ valid_test_cases = <<RecHigh, RecHigh>>

\* C8: a well-formed response whose closing ] and } were cut off is
\* repaired by appending ] and }, parses, and yields its records.
C8_AutoClosed ==
    (Ended /\ input.form = "doc" /\ input.cut = 2 /\ input.fence = "none"
     /\ ListOf(input.doc) # <<>>)
      => /\ pc = "returned"
         /\ Len(fixed_json_str) = Len(json_str) + 2
         /\ SubSeq(fixed_json_str, Len(json_str) + 1, Len(json_str) + 2)
              = <<"]", "}">>
         /\ json_loads(fixed_json_str).ok
         /\ valid_test_cases =
              SelectSeq(ListOf(input.doc), LAMBDA r : HasKeys(r, CodeKeys))

\* the priority_id the specification gives a record
ExpectedPriorityId(record) ==
    IF ~HasKey(record.o, k_priority) THEN 3
    ELSE LET p == Lookup(record.o, k_priority)
         IN  CASE p = JStr(p_Critical) -> 1
               [] p = JStr(p_High) -> 2
               [] p = JStr(p_Medium) -> 3
               [] p = JStr(p_Low) -> 4
               [] OTHER -> 3

AddCases == SelectSeq(requests, LAMBDA r : r.api = "add_case")

\* C9: every record the loop has taken is sent with priority_id 1, 2, 3 or
\* 4 for Critical, High, Medium, Low and 3 for any other or missing
\* priority, and no add_case request carries anything else.
C9_PriorityIds ==
    /\ \A i \in 1..Len(requests) :
         requests[i].api = "add_case"
           => /\ requests[i].priority_id =
                   ExpectedPriorityId(cases[requests[i].case])
              /\ requests[i].priority_id \in 1..4
    /\ \A k \in 1..idx :
         cases[k].t = "obj"
           => \E i \in 1..Len(requests) :
                /\ requests[i].api = "add_case"
                /\ requests[i].case = k
                /\ requests[i].priority_id = ExpectedPriorityId(cases[k])

\* C10: the loop sends one add_case per record, in order, whatever fails,
\* and created_count + failed_count is the number of records, created_count
\* the number of requests that succeeded.
C10_OnePerRecord ==
    (pc = "created" /\ cases # <<>>)
      => /\ Len(AddCases) = Len(cases)
         /\ \A i \in 1..Len(AddCases) : AddCases[i].case = i
         /\ created_count + failed_count = Len(cases)
         /\ created_count =
              Cardinality({i \in 1..Len(AddCases) : AddCases[i].ok})

\* the requests sent to the inference endpoint, in order
Posts == SelectSeq(gemini_calls, LAMBDA c : c.op = "post")

\* the number of requests among the first n calls
PostsBefore(n) ==
    Cardinality({j \in 1..n : gemini_calls[j].op = "post"})

LastStatus == Posts[Len(Posts)].arg

\* C13: when every request is answered, a call of generate_test_cases with
\* max_retries >= 0 ends, either returning the decoded body of a request
\* whose status is no error or with the process exited with status 1; it
\* never leaves the loop through the loop test, returning None.
C13_Theorem ==
    /\ <>(pc \in {"generated", "exit"})
    /\ [](max_retries >= 0 => pc # "gen_none")
    /\ [](pc = "generated"
            => /\ exit_status = -1
               /\ gemini_response = Envelope(input)
               /\ Posts # <<>>
               /\ LastStatus # 0
               /\ ~RaisesForStatus(LastStatus))
    /\ [](pc = "exit" => exit_status = 1)
    /\ [](pc = "gen_loop" => exit_status = -1)

\* the last request the retries allow is the one that is answered
C13_Witness ==
    /\ pc = "generated"
    /\ max_retries = 2
    /\ retry_count = 2
    /\ Len(Posts) = 3
    /\ LastStatus = 200
    /\ gemini_response = Envelope(TwoRecords)

\* the step of main the run is in: 1 diff retrieval, 2 model inference,
\* 3 extraction, 4 case creation, 5 over
Stage(at) ==
    CASE at \in {"main", "diff"} -> 1
      [] at \in {"gen_loop", "generated", "gen_none"} -> 2
      [] at \in {"text", "locate", "strict", "repair", "reparse", "salvage",
                 "container", "validate", "returned"} -> 3
      [] at \in {"create", "connect", "sections", "section", "loop",
                 "created"} -> 4
      [] OTHER -> 5

C12_Step ==
    /\ Stage(pc') \in {Stage(pc), Stage(pc) + 1, 5}
    /\ (Stage(pc) = 1 /\ Stage(pc') = 2) => (pc = "diff" /\ code_diff # <<>>)
    /\ (Stage(pc) = 2 /\ Stage(pc') = 3) => pc = "generated"
    /\ (Stage(pc) = 3 /\ Stage(pc') = 4)
         => (pc = "returned" /\ cases' = valid_test_cases)
    /\ gemini_calls' # gemini_calls => Stage(pc) = 2
    /\ requests' # requests => Stage(pc) = 4
    /\ (pc = "diff" /\ code_diff = <<>>)
         => (pc' = "exit" /\ exit_status' = 0)
    /\ (pc = "returned" /\ valid_test_cases = <<>>) => pc' = "create"
    /\ (pc = "create" /\ cases = <<>>) => pc' = "created"
    /\ pc = "created" => (pc' = "done" /\ exit_status' = -1)

C12_State ==
    /\ gemini_calls # <<>> => code_diff # <<>>
    /\ requests # <<>> => (valid_test_cases # <<>> /\ cases = valid_test_cases)
    /\ exit_status = 0
         => (pc = "exit" /\ code_diff = <<>> /\ gemini_calls = <<>>
             /\ requests = <<>>)
    /\ (Stage(pc) > 1 /\ code_diff = <<>>) => (pc = "exit" /\ exit_status >= 0)
    /\ (pc = "done" /\ cases = <<>>)
         => (requests = <<>> /\ exit_status = -1)

\* C12: the four steps of main run one after the other, each entered only
\* from the return of the one before; no request goes to TestRail when the
\* extraction returned no record, and the run then ends at line 692, not in
\* an exit; no request goes to the inference endpoint when the diff is
\* empty, and the process then exits with status 0.
C12_Theorem == [][C12_Step]_vars /\ []C12_State

\* a run that ends normally without a record and without a request to
\* TestRail, after a retried inference
C12_Witness ==
    /\ pc = "done"
    /\ Len(Posts) = 2
    /\ input.form = "doc"
    /\ parsed_json = Doc(<<RecNoPriority>>)
    /\ valid_test_cases = <<>>
    /\ requests = <<>>
    /\ exit_status = -1

\* the requests of one kind sent to TestRail, in order
RequestsOf(api) == SelectSeq(requests, LAMBDA r : r.api = api)

\* C14: an add_case request is sent only after a get_projects request that
\* succeeded and with a non-empty section id, which is the id of the
\* section named generic that get_sections listed or else of the section
\* add_section created; every add_case request of a run carries that same
\* id; and when the connection test fails, or no generic section is listed
\* and none can be created, the process exits with status 1 and no
\* add_case request.
C14_Theorem ==
    /\ requests # <<>> => requests[1].api = "get_projects"
    /\ Len(RequestsOf("get_projects")) <= 1
    /\ \A i \in 1..Len(requests) :
         requests[i].api = "add_case"
           => /\ requests[1].ok
              /\ requests[i].section_id # 0
              /\ requests[i].section_id = section_id
              /\ Len(RequestsOf("get_sections")) = 1
              /\ LET listed == RequestsOf("get_sections")[1].section_id
                     made == RequestsOf("add_section")
                 IN  IF listed # 0
                     THEN made = <<>> /\ requests[i].section_id = listed
                     ELSE /\ Len(made) = 1
                          /\ requests[i].section_id = made[1].section_id
    /\ \A i, j \in 1..Len(AddCases) :
         AddCases[i].section_id = AddCases[j].section_id
    /\ pc = "exit"
         => (exit_status = 1 /\ AddCases = <<>> /\ created_count = 0)
    /\ (requests # <<>> /\ ~requests[1].ok) => (pc = "exit" /\ Len(requests) = 1)
    /\ (requests # <<>> /\ requests[Len(requests)].api = "add_section"
        /\ requests[Len(requests)].section_id = 0)
         => pc = "exit"

\* the generic section listed has no id: one is created, and both cases go
\* to it
C14_Witness ==
    /\ pc = "created"
    /\ RequestsOf("get_sections") =
         <<Sent("get_sections", 0, 0, 0, JNull, TRUE)>>
    /\ Said("Found existing 'generic' section")
    /\ RequestsOf("add_section") =
         <<Sent("add_section", 7, 0, 0, JNull, TRUE)>>
    /\ Len(AddCases) = 2
    /\ AddCases[1].section_id = 7
    /\ AddCases[2].section_id = 7

\* the masked key that was printed
Printed(m) ==
    \E i \in 1..Len(out) :
      out[i] = SayKeys("Using TestRail authentication", m)

\* C15: the masked key printed for a non-empty API key has the length of the
\* key, shows a star at every place but the first four and the last four,
\* and does not contain the key.
C15_Masked ==
    \A i \in 1..Len(out) :
      (out[i].msg = "Using TestRail authentication"
       /\ testrail_api_key # <<>>)
        => LET m == out[i].arg
               k == testrail_api_key
           IN  /\ Len(m) = Len(k)
               /\ \A j \in 5..(Len(k) - 4) : m[j] = "*"
               /\ ~IsSubstring(k, m)

=============================================================================
